---- MODULE Spec2Model ----
(***************************************************************************)
(* The event emitter of go-event-emitter: a registry of listeners (per     *)
(* event) and capturers (all events), guarded by a mutex, with EmitEvent   *)
(* invoking the handlers inline (async = FALSE) or in goroutines.          *)
(*                                                                         *)
(* The repository holds three implementations of the Emitter:              *)
(*   "mutex"      src/emitter.go 1-175 (= src/unnamed/part_003; the older  *)
(*                src/emitter.go 177-327 is its async = TRUE case):        *)
(*                one sync.Mutex held for the whole of EmitEvent, a once   *)
(*                flag on each Listener / Capturer;                        *)
(*   "rwmutex"    src/unnamed/part_001 29-222: a sync.RWMutex, the once    *)
(*                listeners in a second map listenersOnce;                 *)
(*   "rwembedded" src/unnamed/part_002: as "rwmutex", with the emptiness   *)
(*                checks of EmitEvent made without the guard.              *)
(* variant, chosen in Init, says which one a behaviour runs.               *)
(***************************************************************************)
EXTENDS Integers, Sequences, FiniteSets, TLC

\* ---------------------------------------------------------------- bounds
MaxHandles == 2
MaxEmits == 2
MaxRemoves == 2
MaxListed == 3

Events == {"A", "B"}
Callers == {1, 2}
AllOps == {"register", "remove", "emit"}
Variants == {"mutex", "rwmutex", "rwembedded"}
\* The event a recursive handler emits (TestEmitNonAsyncRecursive: "subevent").
SubEvent == "B"
RootEvent == "A"
\* The handle of a Listener / Capturer the emitter never returned.
NoHandle == 0

VARIABLES
    variant,        \* which implementation runs
    async,          \* Emitter.async
    listeners,      \* Emitter.listeners: a Go map, event -> sequence of handles
    listenersOnce,  \* Emitter.listenersOnce (rwmutex, rwembedded)
    capturers,      \* Emitter.capturers
    hinfo,          \* the Listener / Capturer structs handed out, by handle
    stack,          \* thread -> its call stack of frames (the guard is held by frames)
    emits,          \* history: one record per EmitEvent call
    calls,          \* history: the top-level calls made so far, by kind
    removed,        \* history: handles whose RemoveListener / RemoveCapturer returned
    staleRemovals,  \* history: removals of a handle that was not registered
    lastRemoval,    \* history: the RemoveAll... call that has just returned (no
                    \* other operation was called since)
    pending,        \* goroutines started by `go handler(...)` whose handler body
                    \* calls nothing: handle -> how many have not run yet
    fired,          \* history: once handle -> how often it was invoked
    leaked,         \* read locks of the guard taken by calls that a panic has
                    \* unwound before their RUnlock
    limits          \* what the callers of this behaviour do (set in Init)

vars == <<variant, async, listeners, listenersOnce, capturers, hinfo, stack,
          emits, calls, removed, staleRemovals, lastRemoval, pending, fired, leaked,
          limits>>

registry == <<listeners, listenersOnce, capturers>>

\* ------------------------------------------------------------ Go helpers
\* m[k] of a Go map of slices: the zero value (nil slice) for an absent key.
Get(m, k) == IF k \in DOMAIN m THEN m[k] ELSE <<>>

\* A store that writes every key of the map.
PutAll(m, k, v) == [x \in DOMAIN m \cup {k} |-> v]

\* m[k] = v
Put(m, k, v) == [x \in DOMAIN m \cup {k} |-> IF x = k THEN v ELSE m[x]]

EmptyMap == [x \in {} |-> <<>>]

\* The copy alone, the slice not cut: the last entry stays behind.
RemoveAtDup(s, index) ==
    SubSeq(s, 1, index) \o SubSeq(s, index + 2, Len(s)) \o <<s[Len(s)]>>

\* A removal that always drops the first entry.
RemoveHead(s, index) == Tail(s)

\* A removal that moves the last entry into the gap: s[index] = s[len(s)-1].
RemoveSwap(s, index) ==
    [i \in 1..(Len(s) - 1) |-> IF i = index + 1 THEN s[Len(s)] ELSE s[i]]

\* copy(s[index:], s[index+1:]); s[len(s)-1] = nil; s = s[:len(s)-1]
\* index is 0-based, as in the source.
RemoveAt(s, index) == SubSeq(s, 1, index) \o SubSeq(s, index + 2, Len(s))

\* A scan that returns the last index it looked at when h is absent.
IndexOfOrLast(s, h) ==
    IF \E i \in 1..Len(s) : s[i] = h
    THEN (CHOOSE i \in 1..Len(s) : s[i] = h /\ \A j \in 1..(i - 1) : s[j] # h) - 1
    ELSE Len(s) - 1

\* for index, x := range s { if x == h { return index } }: 0-based, -1 if absent.
IndexOf(s, h) ==
    IF \E i \in 1..Len(s) : s[i] = h
    THEN (CHOOSE i \in 1..Len(s) : s[i] = h /\ \A j \in 1..(i - 1) : s[j] # h) - 1
    ELSE -1

Range(s) == {s[i] : i \in 1..Len(s)}

\* Every handle the registry holds.
Registered ==
    UNION {Range(listeners[e]) : e \in DOMAIN listeners}
    \cup UNION {Range(listenersOnce[e]) : e \in DOMAIN listenersOnce}
    \cup Range(capturers)

\* ---------------------------------------------------------------- frames
\* A frame of a call stack. op: "emit", "handler" or a registry operation.
\* lk is what the frame holds of the guard: "none", "r" (RLock), "w" (Lock),
\* "wwait" (inside Lock, waiting for the readers to leave).
Frame(op, pc, ev, h, e) ==
    [op |-> op, pc |-> pc, ev |-> ev, h |-> h, e |-> e, idx |-> 0, removed |-> 0,
     n |-> 0, snap |-> <<>>, lk |-> "none", todo |-> <<>>, script |-> "plain"]

Threads == DOMAIN stack
\* Callers are 1, 2; the goroutines of handlers that call the emitter are 10, 11, ...
Top(t) == stack[t][Len(stack[t])]
Pop(t) == SubSeq(stack[t], 1, Len(stack[t]) - 1)
Holds(t, kinds) == \E i \in 1..Len(stack[t]) : stack[t][i].lk \in kinds

\* sync.Mutex (mutex): locked.
MutexHeld == \E t \in Threads : Holds(t, {"w"})
\* sync.RWMutex: a writer holds it or has announced itself; RLock waits for it.
WriterBusy == \E t \in Threads : Holds(t, {"w", "wwait"})
\* A Lock that does not wait for the readers to leave.
ReadersIgnored == FALSE

\* sync.RWMutex: some reader holds it; Lock waits for it.
ReadersPresent == leaked > 0 \/ \E t \in Threads : Holds(t, {"r"})

\* A call: what to run and with which arguments.
Call(op, ev, h, script) == [op |-> op, ev |-> ev, h |-> h, script |-> script]

\* What a handler does when invoked: the calls it makes on its emitter.
\*   "emit2": the root listener of TestEmitNonAsyncRecursive;
\*   "add":   a handler that registers a listener.
\*   "clear": a handler that clears the listeners;
\*   "panic": a handler that panics.
Scripts == {"plain", "emit2", "add", "clear", "panic"}
Todo(script) ==
    CASE script = "emit2" -> << Call("emit", SubEvent, NoHandle, "plain"),
                                Call("emit", SubEvent, NoHandle, "plain") >>
      [] script = "add" -> << Call("AddListener", SubEvent, NoHandle, "plain") >>
      [] script = "clear" -> << Call("RemoveAllListeners", "", NoHandle, "plain") >>
      [] script = "panic" -> << Call("panic", "", NoHandle, "plain") >>
      [] OTHER -> <<>>

\* Thread t makes call c now: a caller at top level, or a handler running its script.
Requested(t, c) ==
    \/ t \in Callers /\ t \in Threads /\ stack[t] = <<>>
    \/ /\ t \in Threads
       /\ stack[t] # <<>>
       /\ Top(t).op = "handler"
       /\ Top(t).todo # <<>>
       /\ Head(Top(t).todo) = c

\* t's stack once the call is made (the handler's script advanced).
Base(t) ==
    IF stack[t] = <<>> THEN <<>>
    ELSE [stack[t] EXCEPT ![Len(stack[t])].todo = Tail(@)]

TopLevel(t) == t \in Callers /\ t \in Threads /\ stack[t] = <<>>

\* No emission is under way and no handler is running.
\* The EmitEvent call of emission e is gone without having returned: a panic
\* of a handler has unwound it.
Panicked(e) ==
    /\ ~emits[e].done
    /\ \A t \in Threads : \A i \in 1..Len(stack[t]) :
          ~(stack[t][i].op = "emit" /\ stack[t][i].e = e)

Quiescent ==
    /\ \A e \in 1..Len(emits) : emits[e].done \/ Panicked(e)
    /\ \A t \in Threads : \A i \in 1..Len(stack[t]) : stack[t][i].op # "handler"

\* The records of the emissions still of interest when t makes its call: the
\* finished ones are dropped at the next top-level call made while nothing runs.
History(t) == IF TopLevel(t) /\ Quiescent THEN <<>> ELSE emits

ChargeEmit(t) == calls' = IF TopLevel(t) THEN [calls EXCEPT !.emit = @ + 1] ELSE calls
ChargeRemove(t) == calls' = IF TopLevel(t) THEN [calls EXCEPT !.rem = @ + 1] ELSE calls
\* No RemoveAll... call has just returned.
NoRemoval == [op |-> "", ev |-> "", n |-> 0]

\* The clear op(ev) has done its work and returns; n tells a call from the same
\* call made just before. Kept only in the behaviours that track the clears.
Returned(op, ev) ==
    lastRemoval' = IF limits.track
                   THEN [op |-> op, ev |-> ev, n |-> 1 - lastRemoval.n]
                   ELSE NoRemoval

\* Another operation is called.
Forgotten == lastRemoval' = NoRemoval

ChargeClear(t) ==
    calls' = IF TopLevel(t) THEN [calls EXCEPT !.rem = @ + 1, !.clr = @ + 1] ELSE calls

\* ------------------------------------------------- the guard of an operation
\* em.listenerMutex.Lock(); defer em.listenerMutex.Unlock()   (mutex)
\* em.mu.Lock(); defer em.mu.Unlock()                         (rwmutex, rwembedded)
\* around the bookkeeping eff of call c. With a sync.Mutex the operation runs when
\* the mutex is free. With a sync.RWMutex Lock first announces the writer (new
\* readers and writers wait from then on), then waits until no reader is left.
Locked(t, c, eff) ==
    \/ /\ variant = "mutex"
       /\ Requested(t, c)
       /\ ~MutexHeld
       /\ eff
       /\ stack' = [stack EXCEPT ![t] = Base(t)]
    \/ /\ variant # "mutex"
       /\ Requested(t, c)
       /\ ~WriterBusy
       /\ stack' = [stack EXCEPT ![t] = Append(Base(t),
                        [Frame(c.op, "lock", c.ev, c.h, 0) EXCEPT
                            !.lk = "wwait", !.script = c.script])]
       /\ UNCHANGED <<listeners, listenersOnce, capturers, hinfo, removed, staleRemovals, lastRemoval>>
    \/ /\ variant # "mutex"
       /\ t \in Threads
       /\ stack[t] # <<>>
       /\ Top(t).lk = "wwait"
       /\ Call(Top(t).op, Top(t).ev, Top(t).h, Top(t).script) = c
       /\ ~ReadersPresent
       /\ eff
       /\ stack' = [stack EXCEPT ![t] = Pop(t)]

\* A call charged to the budget of top-level calls when it is made (not when a
\* waiting Lock goes on).
Starting(t) == t \in Threads /\ ~(stack[t] # <<>> /\ Top(t).lk = "wwait")

\* A registration that appends the struct allocated by the call before.
LastEntry == IF Len(hinfo) > 0 THEN Len(hinfo) ELSE 1

\* The pointer a registration appends: the struct it has just allocated.
NewEntry == Len(hinfo) + 1

\* listener = &Listener{handler: handler, once: once}; the handle is its address.
NewHandle(kind, ev, once, script) ==
    hinfo' = Append(hinfo, [kind |-> kind, ev |-> ev, once |-> once, script |-> script])

\* What a top-level caller may register: plain handlers, and on the root event a
\* handler that calls back into the emitter.
RegBudget(t, ev, script) ==
    Starting(t) /\ TopLevel(t) =>
        /\ "register" \in limits.ops[t]
        /\ Len(hinfo) < limits.handles
        /\ script \in limits.scripts
        /\ script # "plain" => ev = RootEvent

\* ------------------------------------------------------------ registration
AddListener(t, ev, script) ==
    /\ RegBudget(t, ev, script)
    /\ Locked(t, Call("AddListener", ev, NoHandle, script),
              /\ NewHandle("listener", ev, FALSE, script)
              /\ listeners' = Put(listeners, ev, Append(Get(listeners, ev), NewEntry))
              /\ Forgotten
              /\ UNCHANGED <<listenersOnce, capturers, removed, staleRemovals>>)
    /\ emits' = History(t)
    /\ UNCHANGED <<variant, async, limits, leaked, calls, pending, fired>>

\* mutex: the listener joins listeners[event] with once = true;
\* rwmutex, rwembedded: it joins listenersOnce[event].
ListenOnce(t, ev) ==
    /\ RegBudget(t, ev, "plain")
    /\ Locked(t, Call("ListenOnce", ev, NoHandle, "plain"),
              /\ NewHandle("listener", ev, TRUE, "plain")
              /\ IF variant = "mutex"
                 THEN /\ listeners' = Put(listeners, ev,
                                          Append(Get(listeners, ev), NewEntry))
                      /\ UNCHANGED listenersOnce
                 ELSE /\ listenersOnce' = Put(listenersOnce, ev,
                                          Append(Get(listenersOnce, ev), NewEntry))
                      /\ UNCHANGED listeners
              /\ Forgotten
              /\ UNCHANGED <<capturers, removed, staleRemovals>>)
    /\ emits' = History(t)
    /\ UNCHANGED <<variant, async, limits, leaked, calls, pending, fired>>

AddCapturer(t) ==
    /\ RegBudget(t, "", "plain")
    /\ Locked(t, Call("AddCapturer", "", NoHandle, "plain"),
              /\ NewHandle("capturer", "", FALSE, "plain")
              /\ capturers' = Append(capturers, NewEntry)
              /\ Forgotten
              /\ UNCHANGED <<listeners, listenersOnce, removed, staleRemovals>>)
    /\ emits' = History(t)
    /\ UNCHANGED <<variant, async, limits, leaked, calls, pending, fired>>

\* Only the mutex implementation has CaptureOnce (the Observable of
\* src/unnamed/part_000 has none).
CaptureOnce(t) ==
    /\ variant = "mutex"
    /\ RegBudget(t, "", "plain")
    /\ Locked(t, Call("CaptureOnce", "", NoHandle, "plain"),
              /\ NewHandle("capturer", "", TRUE, "plain")
              /\ capturers' = Append(capturers, NewEntry)
              /\ Forgotten
              /\ UNCHANGED <<listeners, listenersOnce, removed, staleRemovals>>)
    /\ emits' = History(t)
    /\ UNCHANGED <<variant, async, limits, leaked, calls, pending, fired>>

\* --------------------------------------------------------------- removal
RemBudget(t) ==
    Starting(t) /\ TopLevel(t) => "remove" \in limits.ops[t] /\ calls.rem < limits.removes

\* The handles a caller can pass: one an earlier registration returned for that
\* event, or one the emitter never returned.
ListenerArgs ==
    {<<hinfo[h].ev, h>> : h \in {x \in 1..Len(hinfo) : hinfo[x].kind = "listener"}}
    \cup {<<ev, NoHandle>> : ev \in Events}
CapturerArgs ==
    {h \in 1..Len(hinfo) : hinfo[h].kind = "capturer"} \cup {NoHandle}

\* A RemoveListener that finds nothing.
RemoveListenerScanNone(ev, h) == UNCHANGED <<listeners, listenersOnce>>

\* The scan of RemoveListener: listeners[event] first; in the RWMutex
\* implementations listenersOnce[event] next, if the first scan found nothing.
RemoveListenerScan(ev, h) ==
    IF IndexOf(Get(listeners, ev), h) >= 0
    THEN /\ listeners' = Put(listeners, ev,
                             RemoveAt(listeners[ev], IndexOf(listeners[ev], h)))
         /\ UNCHANGED listenersOnce
    ELSE IF variant # "mutex" /\ IndexOf(Get(listenersOnce, ev), h) >= 0
    THEN /\ listenersOnce' = Put(listenersOnce, ev,
                             RemoveAt(listenersOnce[ev], IndexOf(listenersOnce[ev], h)))
         /\ UNCHANGED listeners
    ELSE UNCHANGED <<listeners, listenersOnce>>

RemoveListener(t, ev, h) ==
    /\ RemBudget(t)
    /\ Locked(t, Call("RemoveListener", ev, h, "plain"),
              /\ RemoveListenerScan(ev, h)
              /\ removed' = removed \cup {h}
              /\ staleRemovals' = staleRemovals + (IF h \in Registered THEN 0 ELSE 1)
              /\ Forgotten
              /\ UNCHANGED <<capturers, hinfo>>)
    /\ ChargeRemove(t)
    /\ emits' = History(t)
    /\ UNCHANGED <<variant, async, limits, leaked, pending, fired>>

\* A RemoveCapturer that finds nothing.
RemoveCapturerScanNone(h) == UNCHANGED capturers

RemoveCapturerScan(h) ==
    IF IndexOf(capturers, h) >= 0
    THEN capturers' = RemoveAt(capturers, IndexOf(capturers, h))
    ELSE UNCHANGED capturers

RemoveCapturer(t, h) ==
    /\ RemBudget(t)
    /\ Locked(t, Call("RemoveCapturer", "", h, "plain"),
              /\ RemoveCapturerScan(h)
              /\ removed' = removed \cup {h}
              /\ staleRemovals' = staleRemovals + (IF h \in Registered THEN 0 ELSE 1)
              /\ Forgotten
              /\ UNCHANGED <<listeners, listenersOnce, hinfo>>)
    /\ ChargeRemove(t)
    /\ emits' = History(t)
    /\ UNCHANGED <<variant, async, limits, leaked, pending, fired>>

\* em.listeners[event] = make([]*Listener, 0)
RemoveAllListenersForEvent(t, ev) ==
    /\ RemBudget(t)
    /\ Locked(t, Call("RemoveAllListenersForEvent", ev, NoHandle, "plain"),
              /\ listeners' = Put(listeners, ev, <<>>)
              /\ Returned("RemoveAllListenersForEvent", ev)
              /\ UNCHANGED <<listenersOnce, capturers, hinfo, removed, staleRemovals>>)
    /\ ChargeClear(t)
    /\ emits' = History(t)
    /\ UNCHANGED <<variant, async, limits, leaked, pending, fired>>

\* A RemoveAllListeners that renews the capturer list as well.
RenewAll ==
    /\ listeners' = EmptyMap
    /\ listenersOnce' = EmptyMap
    /\ capturers' = <<>>

\* em.listeners = make(map...); the RWMutex implementations also renew listenersOnce.
RenewListeners ==
    /\ listeners' = EmptyMap
    /\ listenersOnce' = EmptyMap
    /\ UNCHANGED capturers

RemoveAllListeners(t) ==
    /\ RemBudget(t)
    /\ Locked(t, Call("RemoveAllListeners", "", NoHandle, "plain"),
              /\ RenewListeners
              /\ Returned("RemoveAllListeners", "")
              /\ UNCHANGED <<hinfo, removed, staleRemovals>>)
    /\ ChargeClear(t)
    /\ emits' = History(t)
    /\ UNCHANGED <<variant, async, limits, leaked, pending, fired>>

\* A RemoveAllCapturers that leaves the once capturers in the list.
RenewPlainCapturers == capturers' = SelectSeq(capturers, LAMBDA h : hinfo[h].once)

\* em.capturers = make([]*Capturer, 0)
RenewCapturers == capturers' = <<>>

RemoveAllCapturers(t) ==
    /\ RemBudget(t)
    /\ Locked(t, Call("RemoveAllCapturers", "", NoHandle, "plain"),
              /\ RenewCapturers
              /\ Returned("RemoveAllCapturers", "")
              /\ UNCHANGED <<listeners, listenersOnce, hinfo, removed, staleRemovals>>)
    /\ ChargeClear(t)
    /\ emits' = History(t)
    /\ UNCHANGED <<variant, async, limits, leaked, pending, fired>>

\* ---------------------------------------------------------------- handlers
\* The goroutine of `go handler(...)`: the k-th invocation of emission e.
Goroutine == CHOOSE g \in 10..(10 + Cardinality(Threads)) :
                 g \notin Threads /\ \A x \in 10..(g - 1) : x \in Threads

BagAdd(b, h) == [x \in DOMAIN b \cup {h} |-> IF x \in DOMAIN b THEN
                                                 IF x = h THEN b[x] + 1 ELSE b[x]
                                             ELSE 1]
BagRemove(b, h) == [x \in {y \in DOMAIN b : y # h \/ b[y] > 1} |->
                       IF x = h THEN b[x] - 1 ELSE b[x]]

HandlerFrame(e, h) ==
    [Frame("handler", "run", hinfo[h].ev, h, e) EXCEPT !.todo = Todo(hinfo[h].script)]

\* A capturer called without the event name.
CapturerArgNone(ev) == ""

\* The event name a capturer is called with: handler(event, arguments...).
CapturerArg(ev) == ev

\* An invocation that is always made inline.
InvokeInline(t, stk, e, h, arg) ==
    /\ emits' = [emits EXCEPT ![e].inv = Append(@, [h |-> h, arg |-> arg])]
    /\ fired' = IF hinfo[h].once THEN BagAdd(fired, h) ELSE fired
    /\ stack' = [stack EXCEPT ![t] = Append(stk, HandlerFrame(e, h))]
    /\ UNCHANGED pending

\* One handler invocation by thread t for emission e, t's stack being stk
\* otherwise:  if em.async { go handler(...) } else { handler(...) }.
\* arg is the event name passed (capturers), "" for a listener.
Invoke(t, stk, e, h, arg) ==
    /\ emits' = [emits EXCEPT ![e].inv = Append(@, [h |-> h, arg |-> arg])]
    /\ fired' = IF hinfo[h].once THEN BagAdd(fired, h) ELSE fired
    /\ IF ~async
       THEN /\ stack' = [stack EXCEPT ![t] = Append(stk, HandlerFrame(e, h))]
            /\ UNCHANGED pending
       ELSE IF Todo(hinfo[h].script) = <<>>
       THEN /\ stack' = [stack EXCEPT ![t] = stk]
            /\ pending' = BagAdd(pending, h)
       ELSE /\ stack' = [x \in DOMAIN stack \cup {Goroutine} |->
                           IF x = Goroutine THEN <<HandlerFrame(e, h)>>
                           ELSE IF x = t THEN stk ELSE stack[x]]
            /\ UNCHANGED pending

\* A goroutine of a handler that calls nothing runs its handler body and exits.
GoroutineRun(h) ==
    /\ h \in DOMAIN pending
    /\ pending' = BagRemove(pending, h)
    /\ UNCHANGED <<variant, async, limits, leaked, listeners, listenersOnce, capturers, hinfo,
                   stack, emits, calls, removed, staleRemovals, lastRemoval, fired>>

\* A handler body ends: the inline call returns, or the goroutine exits.
HandlerReturn(t) ==
    /\ t \in Threads
    /\ stack[t] # <<>>
    /\ Top(t).op = "handler"
    /\ Top(t).todo = <<>>
    /\ stack' = IF t \in Callers \/ Len(stack[t]) > 1
                THEN [stack EXCEPT ![t] = Pop(t)]
                ELSE [x \in DOMAIN stack \ {t} |-> stack[x]]
    /\ UNCHANGED <<variant, async, limits, leaked, listeners, listenersOnce, capturers,
                   hinfo, emits, calls, removed, staleRemovals, lastRemoval, pending, fired>>

\* The read locks held by the frames of stack stk.
RLocks(stk) == Cardinality({i \in 1..Len(stk) : stk[i].lk = "r"})

\* An emitter that recovers from the panic of a handler and goes on.
Recovered(t) == Pop(t)

\* The stack of t after a panic in its handler: nothing in the emitter
\* recovers, every frame is left, the caller of the outermost call recovers.
Unwound(t) == <<>>

\* panic(...) in a handler that EmitEvent called inline on the caller's thread.
\* The deferred Unlock of src/emitter.go runs; part_001 and part_002 defer
\* nothing, a read lock taken by an unwound frame stays taken.
HandlerPanic(t) ==
    /\ t \in Callers
    /\ t \in Threads
    /\ stack[t] # <<>>
    /\ Top(t).op = "handler"
    /\ Requested(t, Call("panic", "", NoHandle, "plain"))
    /\ stack' = [stack EXCEPT ![t] = Unwound(t)]
    /\ leaked' = leaked + RLocks(stack[t]) - RLocks(Unwound(t))
    /\ UNCHANGED <<variant, async, limits, listeners, listenersOnce, capturers, hinfo,
                   emits, calls, removed, staleRemovals, lastRemoval, pending, fired>>

\* --------------------------------------------------------------- emission
EmitBudget(t) == TopLevel(t) => "emit" \in limits.ops[t] /\ calls.emit < limits.emits

\* The handles registered for event ev: its listeners and all the capturers.
RegisteredFor(ev) ==
    Range(Get(listeners, ev)) \cup Range(Get(listenersOnce, ev)) \cup Range(capturers)

NewEmit(t, ev) ==
    Append(History(t), [ev |-> ev, nh |-> Len(hinfo), gone |-> removed, inv |-> <<>>,
                   pre |-> Registered, exp |-> RegisteredFor(ev),
                   reg |-> [l |-> listeners, o |-> listenersOnce, c |-> capturers],
                   after |-> lastRemoval.op, done |-> FALSE, parent |-> IF TopLevel(t) THEN 0 ELSE Top(t).e])

InEmit(t, pc) == t \in Threads /\ stack[t] # <<>> /\ Top(t).op = "emit" /\ Top(t).pc = pc

SetTop(t, f) == [stack[t] EXCEPT ![Len(stack[t])] = f]

Return(t) ==
    /\ stack' = [stack EXCEPT ![t] = Pop(t)]
    /\ emits' = [emits EXCEPT ![Top(t).e].done = TRUE]

\* ---- mutex: src/emitter.go 25-61
\* em.listenerMutex.Lock(); defer em.listenerMutex.Unlock(); removed := 0;
\* for index := range em.listeners[event]   (the range length is fixed here)
EmitEventMutex(t, ev) ==
    /\ variant = "mutex"
    /\ Requested(t, Call("emit", ev, NoHandle, "plain"))
    /\ EmitBudget(t)
    /\ ~MutexHeld
    /\ stack' = [stack EXCEPT ![t] = Append(Base(t),
                    [Frame("emit", "listeners", ev, NoHandle, Len(History(t)) + 1) EXCEPT
                        !.lk = "w", !.n = Len(Get(listeners, ev))])]
    /\ emits' = NewEmit(t, ev)
    /\ ChargeEmit(t)
    /\ Forgotten
    /\ UNCHANGED <<variant, async, limits, leaked, listeners, listenersOnce,
                   capturers, hinfo, removed, staleRemovals, pending, fired>>

\* Once flags read as always set / never set.
IsOnceAlways(h) == TRUE
IsOnceNever(h) == FALSE

\* The once flag of the Listener / Capturer struct behind handle h.
IsOnce(h) == hinfo[h].once

\* adjustedIndex = index - removed; [go] em.listeners[event][adjustedIndex].handler(...)
MutexListenerInvoke(t) ==
    /\ variant = "mutex"
    /\ InEmit(t, "listeners")
    /\ Top(t).idx < Top(t).n
    /\ Invoke(t, SetTop(t, [Top(t) EXCEPT !.pc = "listeners_once"]), Top(t).e,
              listeners[Top(t).ev][Top(t).idx - Top(t).removed + 1], "")
    /\ UNCHANGED <<variant, async, limits, leaked, listeners, listenersOnce,
                   capturers, hinfo, calls, removed, staleRemovals, lastRemoval>>

\* if em.listeners[event][adjustedIndex].once { removeListenerAtIndex; removed++ }
MutexListenerOnce(t) ==
    /\ variant = "mutex"
    /\ InEmit(t, "listeners_once")
    /\ LET f == Top(t)
           adj == f.idx - f.removed
           once == IsOnce(listeners[f.ev][adj + 1])
       IN /\ listeners' = IF once
                          THEN Put(listeners, f.ev, RemoveAt(listeners[f.ev], adj))
                          ELSE listeners
          /\ stack' = [stack EXCEPT ![t] = SetTop(t,
                          [f EXCEPT !.pc = "listeners", !.idx = @ + 1,
                                    !.removed = IF once THEN @ + 1 ELSE @])]
    /\ UNCHANGED <<variant, async, limits, leaked, listenersOnce, capturers, hinfo,
                   emits, calls, removed, staleRemovals, lastRemoval, pending, fired>>

\* The listener loop is over: removed = 0; for index := range em.capturers
MutexListenersDone(t) ==
    /\ variant = "mutex"
    /\ InEmit(t, "listeners")
    /\ Top(t).idx = Top(t).n
    /\ stack' = [stack EXCEPT ![t] = SetTop(t,
                    [Top(t) EXCEPT !.pc = "capturers", !.idx = 0, !.removed = 0,
                                   !.n = Len(capturers)])]
    /\ UNCHANGED <<variant, async, limits, leaked, listeners, listenersOnce, capturers,
                   hinfo, emits, calls, removed, staleRemovals, lastRemoval, pending, fired>>

\* [go] em.capturers[adjustedIndex].handler(event, arguments...)
MutexCapturerInvoke(t) ==
    /\ variant = "mutex"
    /\ InEmit(t, "capturers")
    /\ Top(t).idx < Top(t).n
    /\ Invoke(t, SetTop(t, [Top(t) EXCEPT !.pc = "capturers_once"]), Top(t).e,
              capturers[Top(t).idx - Top(t).removed + 1], CapturerArg(Top(t).ev))
    /\ UNCHANGED <<variant, async, limits, leaked, listeners, listenersOnce,
                   capturers, hinfo, calls, removed, staleRemovals, lastRemoval>>

\* if em.capturers[adjustedIndex].once { removeCapturerAtIndex; removed++ }
MutexCapturerOnce(t) ==
    /\ variant = "mutex"
    /\ InEmit(t, "capturers_once")
    /\ LET f == Top(t)
           adj == f.idx - f.removed
           once == IsOnce(capturers[adj + 1])
       IN /\ capturers' = IF once THEN RemoveAt(capturers, adj) ELSE capturers
          /\ stack' = [stack EXCEPT ![t] = SetTop(t,
                          [f EXCEPT !.pc = "capturers", !.idx = @ + 1,
                                    !.removed = IF once THEN @ + 1 ELSE @])]
    /\ UNCHANGED <<variant, async, limits, leaked, listeners, listenersOnce, hinfo,
                   emits, calls, removed, staleRemovals, lastRemoval, pending, fired>>

\* The capturer loop is over: the deferred Unlock runs and EmitEvent returns.
MutexReturn(t) ==
    /\ variant = "mutex"
    /\ InEmit(t, "capturers")
    /\ Top(t).idx = Top(t).n
    /\ Return(t)
    /\ UNCHANGED <<variant, async, limits, leaked, listeners, listenersOnce, capturers,
                   hinfo, calls, removed, staleRemovals, lastRemoval, pending, fired>>

\* ---- rwmutex: src/unnamed/part_001 56-108; rwembedded: src/unnamed/part_002 28-76
\* rwmutex:    em.mu.RLock(); if len(em.listenersOnce) > 0 { em.mu.RUnlock() ...
\* rwembedded: if len(em.listenersOnce) > 0 {      (read without the guard)
\* len of a Go map is its number of keys.
EmitEventRW(t, ev) ==
    /\ variant # "mutex"
    /\ Requested(t, Call("emit", ev, NoHandle, "plain"))
    /\ EmitBudget(t)
    /\ variant = "rwmutex" => ~WriterBusy
    /\ stack' = [stack EXCEPT ![t] = Append(Base(t),
                    Frame("emit",
                          IF Cardinality(DOMAIN listenersOnce) > 0
                          THEN "once_lock" ELSE "listeners_check",
                          ev, NoHandle, Len(History(t)) + 1))]
    /\ emits' = NewEmit(t, ev)
    /\ ChargeEmit(t)
    /\ Forgotten
    /\ UNCHANGED <<variant, async, limits, leaked, listeners, listenersOnce,
                   capturers, hinfo, removed, staleRemovals, pending, fired>>

\* em.mu.Lock(): the writer is announced.
RWOnceLock(t) ==
    /\ variant # "mutex"
    /\ InEmit(t, "once_lock")
    /\ ~WriterBusy
    /\ stack' = [stack EXCEPT ![t] = SetTop(t,
                    [Top(t) EXCEPT !.pc = "once_swap", !.lk = "wwait"])]
    /\ UNCHANGED <<variant, async, limits, leaked, listeners, listenersOnce, capturers,
                   hinfo, emits, calls, removed, staleRemovals, lastRemoval, pending, fired>>

\* A snapshot that leaves the live once list as it was.
OnceKept(ev) == listenersOnce

\* A snapshot that renews the whole once map.
OnceCleared(ev) == EmptyMap

\* The live once list after the snapshot: em.listenersOnce[event] = make([]*Listener, 0)
OnceAfterSwap(ev) == Put(listenersOnce, ev, <<>>)

\* Lock acquired: listenersOnce := em.listenersOnce[event];
\* em.listenersOnce[event] = make([]*Listener, 0); em.mu.Unlock()
RWOnceSwap(t) ==
    /\ variant # "mutex"
    /\ InEmit(t, "once_swap")
    /\ ~ReadersPresent
    /\ stack' = [stack EXCEPT ![t] = SetTop(t,
                    [Top(t) EXCEPT !.pc = "once_invoke", !.lk = "none", !.idx = 0,
                                   !.snap = Get(listenersOnce, Top(t).ev)])]
    /\ listenersOnce' = OnceAfterSwap(Top(t).ev)
    /\ UNCHANGED <<variant, async, limits, leaked, listeners, capturers, hinfo,
                   emits, calls, removed, staleRemovals, lastRemoval, pending, fired>>

\* em.emitListenerEvents(listenersOnce, arguments): outside the guard.
RWOnceInvoke(t) ==
    /\ variant # "mutex"
    /\ InEmit(t, "once_invoke")
    /\ Top(t).idx < Len(Top(t).snap)
    /\ Invoke(t, SetTop(t, [Top(t) EXCEPT !.idx = @ + 1]), Top(t).e,
              Top(t).snap[Top(t).idx + 1], "")
    /\ UNCHANGED <<variant, async, limits, leaked, listeners, listenersOnce,
                   capturers, hinfo, calls, removed, staleRemovals, lastRemoval>>

RWOnceDone(t) ==
    /\ variant # "mutex"
    /\ InEmit(t, "once_invoke")
    /\ Top(t).idx = Len(Top(t).snap)
    /\ stack' = [stack EXCEPT ![t] = SetTop(t,
                    [Top(t) EXCEPT !.pc = "listeners_check", !.snap = <<>>, !.idx = 0])]
    /\ UNCHANGED <<variant, async, limits, leaked, listeners, listenersOnce, capturers,
                   hinfo, emits, calls, removed, staleRemovals, lastRemoval, pending, fired>>

\* rwmutex:    em.mu.RLock(); if len(em.listeners[event]) > 0 { emit } em.mu.RUnlock()
\* rwembedded: if len(em.listeners[event]) > 0 { em.RLock(); emit; em.RUnlock() }
\* rwembedded tests the length before it takes the read lock.
RWListenersCheck(t) ==
    /\ variant # "mutex"
    /\ InEmit(t, "listeners_check")
    /\ variant = "rwmutex" => ~WriterBusy
    /\ stack' = [stack EXCEPT ![t] = SetTop(t,
                    IF Len(Get(listeners, Top(t).ev)) > 0
                    THEN IF variant = "rwmutex"
                         THEN [Top(t) EXCEPT !.pc = "listeners_invoke", !.lk = "r",
                                  !.idx = 0, !.snap = Get(listeners, Top(t).ev)]
                         ELSE [Top(t) EXCEPT !.pc = "listeners_rlock"]
                    ELSE [Top(t) EXCEPT !.pc = "capturers_check"])]
    /\ UNCHANGED <<variant, async, limits, leaked, listeners, listenersOnce, capturers,
                   hinfo, emits, calls, removed, staleRemovals, lastRemoval, pending, fired>>

\* rwembedded: em.RLock(); em.emitListenerEvents(em.listeners[event], arguments)
RWListenersRLock(t) ==
    /\ variant = "rwembedded"
    /\ InEmit(t, "listeners_rlock")
    /\ ~WriterBusy
    /\ stack' = [stack EXCEPT ![t] = SetTop(t,
                    [Top(t) EXCEPT !.pc = "listeners_invoke", !.lk = "r", !.idx = 0,
                                   !.snap = Get(listeners, Top(t).ev)])]
    /\ UNCHANGED <<variant, async, limits, leaked, listeners, listenersOnce, capturers,
                   hinfo, emits, calls, removed, staleRemovals, lastRemoval, pending, fired>>

\* emitListenerEvents under the read lock: for _, listener := range listeners
RWListenerInvoke(t) ==
    /\ variant # "mutex"
    /\ InEmit(t, "listeners_invoke")
    /\ Top(t).idx < Len(Top(t).snap)
    /\ Invoke(t, SetTop(t, [Top(t) EXCEPT !.idx = @ + 1]), Top(t).e,
              Top(t).snap[Top(t).idx + 1], "")
    /\ UNCHANGED <<variant, async, limits, leaked, listeners, listenersOnce,
                   capturers, hinfo, calls, removed, staleRemovals, lastRemoval>>

\* em.mu.RUnlock() after the listeners.
RWListenersDone(t) ==
    /\ variant # "mutex"
    /\ InEmit(t, "listeners_invoke")
    /\ Top(t).idx = Len(Top(t).snap)
    /\ stack' = [stack EXCEPT ![t] = SetTop(t,
                    [Top(t) EXCEPT !.pc = "capturers_check", !.lk = "none",
                                   !.snap = <<>>, !.idx = 0])]
    /\ UNCHANGED <<variant, async, limits, leaked, listeners, listenersOnce, capturers,
                   hinfo, emits, calls, removed, staleRemovals, lastRemoval, pending, fired>>

\* rwmutex:    em.mu.RLock(); if len(em.capturers) > 0 { emit } em.mu.RUnlock()
\* rwembedded: if len(em.capturers) > 0 { em.RLock(); emit; em.RUnlock() }
RWCapturersCheck(t) ==
    /\ variant # "mutex"
    /\ InEmit(t, "capturers_check")
    /\ variant = "rwmutex" => ~WriterBusy
    /\ IF Len(capturers) > 0
       THEN /\ stack' = [stack EXCEPT ![t] = SetTop(t,
                            IF variant = "rwmutex"
                            THEN [Top(t) EXCEPT !.pc = "capturers_invoke", !.lk = "r",
                                     !.idx = 0, !.snap = capturers]
                            ELSE [Top(t) EXCEPT !.pc = "capturers_rlock"])]
            /\ UNCHANGED emits
       ELSE Return(t)
    /\ UNCHANGED <<variant, async, limits, leaked, listeners, listenersOnce, capturers,
                   hinfo, calls, removed, staleRemovals, lastRemoval, pending, fired>>

\* rwembedded: em.RLock(); em.emitCapturerEvents(em.capturers, event, arguments)
RWCapturersRLock(t) ==
    /\ variant = "rwembedded"
    /\ InEmit(t, "capturers_rlock")
    /\ ~WriterBusy
    /\ stack' = [stack EXCEPT ![t] = SetTop(t,
                    [Top(t) EXCEPT !.pc = "capturers_invoke", !.lk = "r", !.idx = 0,
                                   !.snap = capturers])]
    /\ UNCHANGED <<variant, async, limits, leaked, listeners, listenersOnce, capturers,
                   hinfo, emits, calls, removed, staleRemovals, lastRemoval, pending, fired>>

\* emitCapturerEvents under the read lock: for _, capturer := range capturers
RWCapturerInvoke(t) ==
    /\ variant # "mutex"
    /\ InEmit(t, "capturers_invoke")
    /\ Top(t).idx < Len(Top(t).snap)
    /\ Invoke(t, SetTop(t, [Top(t) EXCEPT !.idx = @ + 1]), Top(t).e,
              Top(t).snap[Top(t).idx + 1], CapturerArg(Top(t).ev))
    /\ UNCHANGED <<variant, async, limits, leaked, listeners, listenersOnce,
                   capturers, hinfo, calls, removed, staleRemovals, lastRemoval>>

\* An EmitEvent that goes on to the listeners after the capturers.
RWReturnToListeners(t) ==
    /\ variant # "mutex"
    /\ InEmit(t, "capturers_invoke")
    /\ Top(t).idx = Len(Top(t).snap)
    /\ stack' = [stack EXCEPT ![t] = SetTop(t,
                    [Top(t) EXCEPT !.pc = "listeners_check", !.lk = "none",
                                   !.snap = <<>>, !.idx = 0])]
    /\ UNCHANGED <<variant, async, limits, leaked, listeners, listenersOnce, capturers, hinfo,
                   emits, calls, removed, staleRemovals, lastRemoval, pending, fired>>

\* em.mu.RUnlock() after the capturers; EmitEvent returns.
RWReturn(t) ==
    /\ variant # "mutex"
    /\ InEmit(t, "capturers_invoke")
    /\ Top(t).idx = Len(Top(t).snap)
    /\ Return(t)
    /\ UNCHANGED <<variant, async, limits, leaked, listeners, listenersOnce, capturers,
                   hinfo, calls, removed, staleRemovals, lastRemoval, pending, fired>>

\* ----------------------------------------------------------- specification
\* NewEmitter(async): empty maps, no capturers, the guard free. l says what the
\* callers of the behaviour do.
InitWith(l) ==
    /\ variant \in Variants
    /\ async \in BOOLEAN
    /\ listeners = EmptyMap
    /\ listenersOnce = EmptyMap
    /\ capturers = <<>>
    /\ hinfo = <<>>
    /\ limits = l
    /\ stack = [t \in DOMAIN l.ops |-> <<>>]
    /\ emits = <<>>
    /\ calls = [emit |-> 0, rem |-> 0, clr |-> 0]
    /\ removed = {}
    /\ staleRemovals = 0
    /\ lastRemoval = NoRemoval
    /\ pending = EmptyMap
    /\ fired = EmptyMap
    /\ leaked = 0

\* One caller making any sequence of calls, one after the other; the handlers
\* call nothing.
Init ==
    InitWith([ops |-> (1 :> AllOps), scripts |-> {"plain"}, handles |-> MaxHandles,
              emits |-> MaxEmits, removes |-> MaxRemoves, track |-> FALSE])

Next ==
    \/ \E t \in Threads, ev \in Events, script \in Scripts : AddListener(t, ev, script)
    \/ \E t \in Threads, ev \in Events : ListenOnce(t, ev)
    \/ \E t \in Threads : AddCapturer(t)
    \/ \E t \in Threads : CaptureOnce(t)
    \/ \E t \in Threads, a \in ListenerArgs : RemoveListener(t, a[1], a[2])
    \/ \E t \in Threads, h \in CapturerArgs : RemoveCapturer(t, h)
    \/ \E t \in Threads, ev \in Events : RemoveAllListenersForEvent(t, ev)
    \/ \E t \in Threads : RemoveAllListeners(t)
    \/ \E t \in Threads : RemoveAllCapturers(t)
    \/ \E t \in Threads, ev \in Events : EmitEventMutex(t, ev)
    \/ \E t \in Threads : MutexListenerInvoke(t)
    \/ \E t \in Threads : MutexListenerOnce(t)
    \/ \E t \in Threads : MutexListenersDone(t)
    \/ \E t \in Threads : MutexCapturerInvoke(t)
    \/ \E t \in Threads : MutexCapturerOnce(t)
    \/ \E t \in Threads : MutexReturn(t)
    \/ \E t \in Threads, ev \in Events : EmitEventRW(t, ev)
    \/ \E t \in Threads : RWOnceLock(t)
    \/ \E t \in Threads : RWOnceSwap(t)
    \/ \E t \in Threads : RWOnceInvoke(t)
    \/ \E t \in Threads : RWOnceDone(t)
    \/ \E t \in Threads : RWListenersCheck(t)
    \/ \E t \in Threads : RWListenersRLock(t)
    \/ \E t \in Threads : RWListenerInvoke(t)
    \/ \E t \in Threads : RWListenersDone(t)
    \/ \E t \in Threads : RWCapturersCheck(t)
    \/ \E t \in Threads : RWCapturersRLock(t)
    \/ \E t \in Threads : RWCapturerInvoke(t)
    \/ \E t \in Threads : RWReturn(t)
    \/ \E t \in Threads : HandlerReturn(t)
    \/ \E h \in DOMAIN pending : GoroutineRun(h)

Spec == Init /\ [][Next]_vars

\* One caller as in Spec, with a single EmitEvent, the RemoveAll... calls tracked.
InitClear ==
    InitWith([ops |-> (1 :> AllOps), scripts |-> {"plain"}, handles |-> MaxHandles,
              emits |-> 1, removes |-> MaxRemoves, track |-> TRUE])

SpecClear == InitClear /\ [][Next]_vars

\* One caller that registers up to MaxListed handlers and removes some: the
\* lists get long enough for a removal to leave several entries behind.
InitRemove ==
    InitWith([ops |-> (1 :> {"register", "remove"}), scripts |-> {"plain"},
              handles |-> MaxListed, emits |-> 0, removes |-> MaxRemoves,
              track |-> FALSE])

NextRemove ==
    \/ \E t \in Threads, ev \in Events, script \in Scripts : AddListener(t, ev, script)
    \/ \E t \in Threads, ev \in Events : ListenOnce(t, ev)
    \/ \E t \in Threads : AddCapturer(t)
    \/ \E t \in Threads : CaptureOnce(t)
    \/ \E t \in Threads, a \in ListenerArgs : RemoveListener(t, a[1], a[2])
    \/ \E t \in Threads, h \in CapturerArgs : RemoveCapturer(t, h)
    \/ \E t \in Threads, ev \in Events : RemoveAllListenersForEvent(t, ev)
    \/ \E t \in Threads : RemoveAllListeners(t)
    \/ \E t \in Threads : RemoveAllCapturers(t)

SpecRemove == InitRemove /\ [][NextRemove]_vars

\* One caller of a synchronous emitter whose listeners may panic; the caller
\* recovers from the panic and goes on calling.
InitPanic ==
    /\ InitWith([ops |-> (1 :> AllOps), scripts |-> {"plain", "panic"},
                 handles |-> MaxHandles, emits |-> MaxEmits, removes |-> 1,
                 track |-> FALSE])
    /\ ~async

NextPanic ==
    \/ \E t \in Threads, ev \in Events, script \in Scripts : AddListener(t, ev, script)
    \/ \E t \in Threads, ev \in Events : ListenOnce(t, ev)
    \/ \E t \in Threads : AddCapturer(t)
    \/ \E t \in Threads : CaptureOnce(t)
    \/ \E t \in Threads, a \in ListenerArgs : RemoveListener(t, a[1], a[2])
    \/ \E t \in Threads, h \in CapturerArgs : RemoveCapturer(t, h)
    \/ \E t \in Threads, ev \in Events : RemoveAllListenersForEvent(t, ev)
    \/ \E t \in Threads : RemoveAllListeners(t)
    \/ \E t \in Threads : RemoveAllCapturers(t)
    \/ \E t \in Threads, ev \in Events : EmitEventMutex(t, ev)
    \/ \E t \in Threads : MutexListenerInvoke(t)
    \/ \E t \in Threads : MutexListenerOnce(t)
    \/ \E t \in Threads : MutexListenersDone(t)
    \/ \E t \in Threads : MutexCapturerInvoke(t)
    \/ \E t \in Threads : MutexCapturerOnce(t)
    \/ \E t \in Threads : MutexReturn(t)
    \/ \E t \in Threads, ev \in Events : EmitEventRW(t, ev)
    \/ \E t \in Threads : RWOnceLock(t)
    \/ \E t \in Threads : RWOnceSwap(t)
    \/ \E t \in Threads : RWOnceInvoke(t)
    \/ \E t \in Threads : RWOnceDone(t)
    \/ \E t \in Threads : RWListenersCheck(t)
    \/ \E t \in Threads : RWListenersRLock(t)
    \/ \E t \in Threads : RWListenerInvoke(t)
    \/ \E t \in Threads : RWListenersDone(t)
    \/ \E t \in Threads : RWCapturersCheck(t)
    \/ \E t \in Threads : RWCapturersRLock(t)
    \/ \E t \in Threads : RWCapturerInvoke(t)
    \/ \E t \in Threads : RWReturn(t)
    \/ \E t \in Threads : HandlerReturn(t)
    \/ \E t \in Threads : HandlerPanic(t)

SpecPanic == InitPanic /\ [][NextPanic]_vars

\* Two callers at once: the first registers and removes while the second emits.
InitRace ==
    InitWith([ops |-> (1 :> {"register", "remove"} @@ 2 :> {"emit"}), scripts |-> {"plain"},
              handles |-> MaxHandles, emits |-> 1, removes |-> 1, track |-> FALSE])

SpecRace == InitRace /\ [][Next]_vars

\* Two callers at once: the first registers and emits, the second emits.
InitConcurrent ==
    InitWith([ops |-> (1 :> AllOps @@ 2 :> {"emit"}), scripts |-> {"plain"},
              handles |-> MaxHandles, emits |-> MaxEmits, removes |-> 0, track |-> FALSE])

NextConcurrent ==
    \/ \E t \in Threads, ev \in Events, script \in Scripts : AddListener(t, ev, script)
    \/ \E t \in Threads, ev \in Events : ListenOnce(t, ev)
    \/ \E t \in Threads : AddCapturer(t)
    \/ \E t \in Threads : CaptureOnce(t)
    \/ \E t \in Threads, ev \in Events : EmitEventMutex(t, ev)
    \/ \E t \in Threads : MutexListenerInvoke(t)
    \/ \E t \in Threads : MutexListenerOnce(t)
    \/ \E t \in Threads : MutexListenersDone(t)
    \/ \E t \in Threads : MutexCapturerInvoke(t)
    \/ \E t \in Threads : MutexCapturerOnce(t)
    \/ \E t \in Threads : MutexReturn(t)
    \/ \E t \in Threads, ev \in Events : EmitEventRW(t, ev)
    \/ \E t \in Threads : RWOnceLock(t)
    \/ \E t \in Threads : RWOnceSwap(t)
    \/ \E t \in Threads : RWOnceInvoke(t)
    \/ \E t \in Threads : RWOnceDone(t)
    \/ \E t \in Threads : RWListenersCheck(t)
    \/ \E t \in Threads : RWListenersRLock(t)
    \/ \E t \in Threads : RWListenerInvoke(t)
    \/ \E t \in Threads : RWListenersDone(t)
    \/ \E t \in Threads : RWCapturersCheck(t)
    \/ \E t \in Threads : RWCapturersRLock(t)
    \/ \E t \in Threads : RWCapturerInvoke(t)
    \/ \E t \in Threads : RWReturn(t)
    \/ \E t \in Threads : HandlerReturn(t)
    \/ \E h \in DOMAIN pending : GoroutineRun(h)

SpecConcurrent == InitConcurrent /\ [][NextConcurrent]_vars

\* One caller, one top-level EmitEvent, handlers that call back into the emitter
\* (TestEmitNonAsyncRecursive).
InitReentrant ==
    InitWith([ops |-> (1 :> AllOps), scripts |-> Scripts, handles |-> MaxHandles,
              emits |-> 1, removes |-> 0, track |-> FALSE])

NextReentrant ==
    \/ \E t \in Threads, ev \in Events, script \in Scripts : AddListener(t, ev, script)
    \/ \E t \in Threads, ev \in Events : ListenOnce(t, ev)
    \/ \E t \in Threads : AddCapturer(t)
    \/ \E t \in Threads : CaptureOnce(t)
    \/ \E t \in Threads : RemoveAllListeners(t)
    \/ \E t \in Threads, ev \in Events : EmitEventMutex(t, ev)
    \/ \E t \in Threads : MutexListenerInvoke(t)
    \/ \E t \in Threads : MutexListenerOnce(t)
    \/ \E t \in Threads : MutexListenersDone(t)
    \/ \E t \in Threads : MutexCapturerInvoke(t)
    \/ \E t \in Threads : MutexCapturerOnce(t)
    \/ \E t \in Threads : MutexReturn(t)
    \/ \E t \in Threads, ev \in Events : EmitEventRW(t, ev)
    \/ \E t \in Threads : RWOnceLock(t)
    \/ \E t \in Threads : RWOnceSwap(t)
    \/ \E t \in Threads : RWOnceInvoke(t)
    \/ \E t \in Threads : RWOnceDone(t)
    \/ \E t \in Threads : RWListenersCheck(t)
    \/ \E t \in Threads : RWListenersRLock(t)
    \/ \E t \in Threads : RWListenerInvoke(t)
    \/ \E t \in Threads : RWListenersDone(t)
    \/ \E t \in Threads : RWCapturersCheck(t)
    \/ \E t \in Threads : RWCapturersRLock(t)
    \/ \E t \in Threads : RWCapturerInvoke(t)
    \/ \E t \in Threads : RWReturn(t)
    \/ \E t \in Threads : HandlerReturn(t)
    \/ \E h \in DOMAIN pending : GoroutineRun(h)

SpecReentrant == InitReentrant /\ [][NextReentrant]_vars

\* One caller and few calls, the Go scheduler running every goroutine of a
\* `go handler(...)` (TestEmitterAsync waits for them).
InitFair ==
    InitWith([ops |-> (1 :> AllOps), scripts |-> {"plain"}, handles |-> MaxHandles,
              emits |-> MaxEmits, removes |-> 1, track |-> FALSE])

SpecFair ==
    /\ InitFair
    /\ [][Next]_vars
    /\ WF_vars(\E h \in DOMAIN pending : GoroutineRun(h))

\* The goroutines a behaviour of SpecReentrant can hold.
ThreadIds == Callers \cup {10, 11, 12}

\* Goroutine t is inside a method of the emitter, not in a handler body.
InEmitter(t) == t \in Threads /\ stack[t] # <<>> /\ Top(t).op # "handler"

\* A step of the emitter's code in goroutine t.
EmitterStep(t) ==
    /\ InEmitter(t)
    /\ NextReentrant
    /\ t \in DOMAIN stack'
    /\ stack'[t] # stack[t]

\* As SpecReentrant, the Go scheduler running every goroutine that is inside a
\* method of the emitter and can go on. Handler bodies need not go on: a handler
\* may never make its next call and may never return.
SpecReentrantFair ==
    /\ InitReentrant
    /\ [][NextReentrant]_vars
    /\ \A t \in ThreadIds : WF_vars(EmitterStep(t))

\* Two callers registering at once, the second one emitting as well.
InitRegister ==
    InitWith([ops |-> (1 :> {"register"} @@ 2 :> {"register", "emit"}),
              scripts |-> {"plain"}, handles |-> MaxHandles, emits |-> 1,
              removes |-> 0, track |-> FALSE])

\* A step of goroutine t inside a call on the emitter or inside a handler.
CallStep(t) ==
    /\ t \in Threads
    /\ stack[t] # <<>>
    /\ NextConcurrent
    /\ t \in DOMAIN stack'
    /\ stack'[t] # stack[t]

\* The Go scheduler runs every goroutine that can go on, and the handlers
\* return: a caller inside a call or a handler takes its next step.
SpecRegisterFair ==
    /\ InitRegister
    /\ [][NextConcurrent]_vars
    /\ \A t \in Callers : WF_vars(CallStep(t))

\* ------------------------------------------------------------- properties
Handles == 1..Len(hinfo)
EmitIds == 1..Len(emits)

\* How often emission e invoked handle h.
Count(e, h) == Cardinality({i \in 1..Len(emits[e].inv) : emits[e].inv[i].h = h})

\* How often handle h was invoked in all.
FiredCount(h) == IF h \in DOMAIN fired THEN fired[h] ELSE 0

IsListener(h) == hinfo[h].kind = "listener"
IsCapturer(h) == hinfo[h].kind = "capturer"

\* C1: as long as no removal was called, a listener registered with AddListener
\* on event E has been invoked exactly once by every finished EmitEvent(E) that
\* was issued after its registration, never more than once by any emission, and
\* never by an EmitEvent of another event.
ClaimC1 ==
    \A e \in EmitIds : \A h \in Handles :
        IsListener(h) /\ ~hinfo[h].once =>
            /\ Count(e, h) <= 1
            /\ hinfo[h].ev # emits[e].ev => Count(e, h) = 0
            /\ ( /\ calls.rem = 0
                 /\ emits[e].done
                 /\ h <= emits[e].nh
                 /\ hinfo[h].ev = emits[e].ev ) => Count(e, h) = 1

\* The second EmitEvent(E) of a run without removals has finished and invoked a
\* listener that was registered before the first one.
WitnessC1 ==
    \E e \in EmitIds : \E h \in Handles :
        /\ IsListener(h) /\ ~hinfo[h].once
        /\ calls.rem = 0 /\ calls.emit = 2
        /\ emits[e].done /\ h <= emits[e].nh /\ hinfo[h].ev = emits[e].ev
        /\ Len(emits) = 1
        /\ Count(e, h) = 1
        /\ \E g \in Handles : IsListener(g) /\ hinfo[g].ev # emits[e].ev

\* Handle h is in the once snapshot of an EmitEvent that has not invoked it yet.
Claimed(h) ==
    \E t \in Threads : \E i \in 1..Len(stack[t]) :
        /\ stack[t][i].op = "emit"
        /\ stack[t][i].pc = "once_invoke"
        /\ \E k \in (stack[t][i].idx + 1)..Len(stack[t][i].snap) : stack[t][i].snap[k] = h

\* C2: a ListenOnce listener on event E is invoked at most once in all and only
\* by an EmitEvent(E); once an EmitEvent(E) issued after its registration has
\* returned, the listener has left the registry and has been invoked exactly
\* once, or is about to be by an overlapping EmitEvent(E) that took it; so no
\* later EmitEvent(E) invokes it: also when the handler body has not run yet
\* (async) and when emissions overlap.
ClaimC2 ==
    \A h \in Handles :
        IsListener(h) /\ hinfo[h].once =>
            /\ FiredCount(h) + (IF Claimed(h) THEN 1 ELSE 0) <= 1
            /\ \A e \in EmitIds :
                /\ Count(e, h) > 0 => emits[e].ev = hinfo[h].ev
                /\ ( /\ emits[e].done
                     /\ h <= emits[e].nh
                     /\ emits[e].ev = hinfo[h].ev ) =>
                        /\ h \notin Registered
                        /\ FiredCount(h) + (IF Claimed(h) THEN 1 ELSE 0) = 1

\* Two EmitEvent(E) overlap, the first invoked the once listener, whose body has
\* not run yet, and the second has returned without invoking it.
WitnessC2 ==
    \E h \in Handles : \E e1, e2 \in EmitIds :
        /\ IsListener(h) /\ hinfo[h].once
        /\ e1 < e2
        /\ emits[e1].ev = hinfo[h].ev /\ emits[e2].ev = hinfo[h].ev
        /\ h <= emits[e1].nh
        /\ Count(e1, h) = 1 /\ ~emits[e1].done
        /\ Count(e2, h) = 0 /\ emits[e2].done
        /\ async /\ h \in DOMAIN pending

\* C3: whatever the interleaving of the EmitEvent calls of several threads, a
\* once listener or once capturer is invoked at most one time in all.
ClaimC3 ==
    \A h \in Handles : hinfo[h].once =>
        /\ FiredCount(h) <= 1
        /\ Cardinality({e \in EmitIds : Count(e, h) > 0}) <= 1

\* Two threads are inside EmitEvent of the same event at once and a once entry
\* registered before both has been invoked.
WitnessC3 ==
    \E h \in Handles : \E e1, e2 \in EmitIds :
        /\ hinfo[h].once
        /\ e1 # e2
        /\ ~emits[e1].done /\ ~emits[e2].done
        /\ emits[e1].ev = emits[e2].ev
        /\ h <= emits[e1].nh /\ h <= emits[e2].nh
        /\ IsListener(h) => hinfo[h].ev = emits[e1].ev
        /\ FiredCount(h) = 1

\* Thread t is inside a handler that its own EmitEvent invoked while holding the
\* guard, and the call the handler now makes needs the guard: the call waits for
\* a guard that is released only after the handler has returned.
\*   mutex:               the handler's next call needs listenerMutex, locked by
\*                        the EmitEvent below it on the same stack;
\*   rwmutex, rwembedded: the call is inside mu.Lock(), waiting for the readers
\*                        to leave, and the EmitEvent below it holds mu.RLock().
BlockedOnSelf(t, ops) ==
    /\ stack[t] # <<>>
    /\ \/ /\ variant = "mutex"
          /\ Top(t).op = "handler"
          /\ Top(t).todo # <<>>
          /\ Head(Top(t).todo).op \in ops
          /\ Holds(t, {"w"})
       \/ /\ variant # "mutex"
          /\ Top(t).op \in ops
          /\ Top(t).lk = "wwait"
          /\ Holds(t, {"r"})

Mutators ==
    {"AddListener", "ListenOnce", "AddCapturer", "CaptureOnce", "RemoveListener",
     "RemoveCapturer", "RemoveAllListenersForEvent", "RemoveAllListeners",
     "RemoveAllCapturers"}

\* C4: in synchronous mode a handler that calls a registry-mutating operation of
\* its emitter is never stuck in that call behind the guard of its own EmitEvent.
ClaimC4 ==
    ~async => \A t \in Threads : ~BlockedOnSelf(t, Mutators)

\* The emissions a handler of emission e issued.
Children(e) == {c \in EmitIds : emits[c].parent = e}

\* How often the emissions issued from inside emission e invoked handle h.
NestedCount(e, h) ==
    Cardinality({x \in Children(e) \X (1..MaxHandles) :
                    x[2] <= Len(emits[x[1]].inv) /\ emits[x[1]].inv[x[2]].h = h})

\* C5: in synchronous mode, with a listener on the root event that emits the sub
\* event twice, EmitEvent(root) is never stuck in a nested EmitEvent, and when it
\* has returned the root listener has been invoked exactly once and a listener
\* on the sub event exactly twice.
ClaimC5 ==
    ~async =>
        /\ \A t \in Threads : ~BlockedOnSelf(t, {"emit"})
        /\ \A e \in EmitIds : \A r, l \in Handles :
            ( /\ emits[e].done /\ emits[e].parent = 0 /\ emits[e].ev = RootEvent
              /\ r <= emits[e].nh /\ l <= emits[e].nh
              /\ IsListener(r) /\ hinfo[r].ev = RootEvent /\ hinfo[r].script = "emit2"
              /\ IsListener(l) /\ hinfo[l].ev = SubEvent /\ ~hinfo[l].once ) =>
                    /\ Count(e, r) = 1
                    /\ NestedCount(e, l) = 2

\* C6: no handler runs on a thread that holds the guard (read or write side, or
\* is inside Lock).
ClaimC6 ==
    \A t \in Threads :
        (\E i \in 1..Len(stack[t]) : stack[t][i].op = "handler")
            => ~Holds(t, {"r", "w", "wwait"})

\* C7: an EmitEvent issued after RemoveListener(E, h) has returned, h a handle
\* that AddListener(E) or ListenOnce(E) returned, does not invoke h.
ClaimC7 ==
    \A e \in EmitIds : \A h \in Handles :
        IsListener(h) /\ h \in emits[e].gone => Count(e, h) = 0

\* An EmitEvent(E) has returned that was issued after the removal of a listener
\* on E which was registered when it was removed, another listener on E being
\* invoked by it.
WitnessC7 ==
    \E e \in EmitIds : \E h, g \in Handles :
        /\ IsListener(h) /\ ~hinfo[h].once /\ h \in emits[e].gone
        /\ hinfo[h].ev = emits[e].ev
        /\ staleRemovals = 0 /\ calls.clr = 0
        /\ emits[e].done
        /\ g # h /\ Count(e, g) = 1 /\ IsListener(g)

\* C8: a RemoveListener or RemoveCapturer whose handle is not registered (never
\* returned by the emitter, removed before, removed after its once firing, or
\* cleared) leaves the listener lists, the once lists and the capturer list as
\* they were.
ClaimC8 ==
    [][staleRemovals' # staleRemovals => registry' = registry]_vars

\* The same handle was removed twice, the second time when it was no longer
\* registered, while other listeners or capturers are registered.
WitnessC8 ==
    /\ staleRemovals = 1
    /\ calls.rem = 2 /\ calls.clr = 0
    /\ Registered # {}
    /\ \E h \in Handles : removed = {h} /\ ~hinfo[h].once

\* C9: a capturer registered with AddCapturer has been invoked exactly once by
\* every finished EmitEvent, of any event, issued after its registration and
\* before any removal of it, and never more than once by one EmitEvent.
ClaimC9 ==
    \A e \in EmitIds : \A h \in Handles :
        IsCapturer(h) /\ ~hinfo[h].once =>
            /\ Count(e, h) <= 1
            /\ \A i \in 1..Len(emits[e].inv) :
                   emits[e].inv[i].h = h => emits[e].inv[i].arg = emits[e].ev
            /\ ( /\ emits[e].done
                 /\ h <= emits[e].nh
                 /\ h \notin removed
                 /\ calls.clr = 0 ) => Count(e, h) = 1

\* The second EmitEvent has returned, for an event without listeners, and has
\* invoked a capturer registered before the first one.
WitnessC9 ==
    \E e \in EmitIds : \E h \in Handles :
        /\ IsCapturer(h) /\ ~hinfo[h].once
        /\ calls.emit = 2 /\ Len(emits) = 1
        /\ emits[e].done /\ h <= emits[e].nh /\ Count(e, h) = 1
        /\ Get(listeners, emits[e].ev) = <<>>
        /\ Get(listenersOnce, emits[e].ev) = <<>>
        /\ \A g \in Handles : IsCapturer(g)

\* C10: a CaptureOnce capturer is invoked at most once in all, with the event
\* of the EmitEvent that invokes it; once an EmitEvent (of any event) issued
\* after its registration, and before any removal of it, has returned, it has
\* been invoked exactly once and has left the capturer list, so only the first
\* such EmitEvent invokes it.
ClaimC10 ==
    \A h \in Handles :
        IsCapturer(h) /\ hinfo[h].once =>
            /\ FiredCount(h) <= 1
            /\ \A e \in EmitIds :
                /\ \A i \in 1..Len(emits[e].inv) :
                       emits[e].inv[i].h = h => emits[e].inv[i].arg = emits[e].ev
                /\ ( /\ emits[e].done
                     /\ h <= emits[e].nh
                     /\ h \notin removed
                     /\ calls.clr = 0 ) =>
                        /\ FiredCount(h) = 1
                        /\ h \notin Registered

\* The second EmitEvent after a CaptureOnce has returned without invoking the
\* capturer, which the first one invoked.
WitnessC10 ==
    \E e \in EmitIds : \E h \in Handles :
        /\ IsCapturer(h) /\ hinfo[h].once
        /\ calls.emit = 2 /\ Len(emits) = 1
        /\ emits[e].done /\ h <= emits[e].nh /\ Count(e, h) = 0
        /\ calls.rem = 0
        /\ FiredCount(h) = 1

\* The list s without handle h.
Without(s, h) == SelectSeq(s, LAMBDA x : x # h)

\* C11: an EmitEvent issued after RemoveCapturer(c) has returned, c a handle
\* that AddCapturer or CaptureOnce returned, does not invoke c; and the
\* RemoveCapturer(c) step takes c out of the capturer list and leaves the other
\* capturers, their order, and all the listener lists as they were.
ClaimC11 ==
    /\ [](\A e \in EmitIds : \A h \in Handles :
            IsCapturer(h) /\ h \in emits[e].gone => Count(e, h) = 0)
    /\ [][\A h \in Handles :
            IsCapturer(h) /\ h \notin removed /\ h \in removed' =>
                /\ capturers' = Without(capturers, h)
                /\ listeners' = listeners
                /\ listenersOnce' = listenersOnce]_vars

\* An EmitEvent has returned that was issued after the removal of a capturer
\* which was registered when it was removed; it has invoked the other capturer.
WitnessC11 ==
    \E e \in EmitIds : \E h, g \in Handles :
        /\ IsCapturer(h) /\ ~hinfo[h].once /\ h \in emits[e].gone
        /\ staleRemovals = 0 /\ calls.clr = 0
        /\ emits[e].done
        /\ g # h /\ IsCapturer(g) /\ Count(e, g) = 1 /\ Count(e, h) = 0

\* C12: in synchronous mode one EmitEvent invokes the listeners in the order of
\* their registration (handles are numbered in that order), AddListener and
\* ListenOnce listeners alike, and the capturers in the order of theirs.
ClaimC12 ==
    ~async =>
        \A e \in EmitIds : \A i, j \in 1..Len(emits[e].inv) :
            ( /\ i < j
              /\ hinfo[emits[e].inv[i].h].kind = hinfo[emits[e].inv[j].h].kind )
                => emits[e].inv[i].h < emits[e].inv[j].h

\* C13: in synchronous mode every listener invocation of one EmitEvent comes
\* before its first capturer invocation.
ClaimC13 ==
    ~async =>
        \A e \in EmitIds : \A i, j \in 1..Len(emits[e].inv) :
            IsCapturer(emits[e].inv[i].h) /\ IsListener(emits[e].inv[j].h) => j < i

\* A synchronous EmitEvent has returned after invoking a listener and then a
\* capturer.
WitnessC13 ==
    \E e \in EmitIds :
        /\ ~async
        /\ emits[e].done
        /\ Len(emits[e].inv) = 2
        /\ IsListener(emits[e].inv[1].h)
        /\ IsCapturer(emits[e].inv[2].h)
        /\ emits[e].inv[1].h > emits[e].inv[2].h

\* Goroutine t is inside EmitEvent.
InEmitEvent(t) ==
    t \in Threads /\ \E i \in 1..Len(stack[t]) : stack[t][i].op = "emit"

\* C14: in asynchronous mode no handler runs inside the EmitEvent that
\* dispatched it, and every EmitEvent call returns (its goroutine then holds
\* nothing of the guard), whether or not the handlers ever return or get on with
\* the calls they make on the emitter.
ClaimC14 ==
    /\ [](async => \A t \in Threads : \A i, j \in 1..Len(stack[t]) :
            stack[t][i].op = "emit" /\ stack[t][j].op = "handler" => j < i)
    /\ \A t \in ThreadIds :
            (async /\ InEmitEvent(t)) ~>
                (~InEmitEvent(t) /\ (t \in Threads => ~Holds(t, {"r", "w", "wwait"})))

\* An asynchronous EmitEvent of the caller has returned while a handler it
\* dispatched has not yet made the call it makes on the emitter.
WitnessC14 ==
    \E e \in EmitIds : \E g \in Threads \ Callers :
        /\ async
        /\ emits[e].done /\ emits[e].parent = 0
        /\ stack[1] = <<>>
        /\ Len(stack[g]) = 1
        /\ stack[g][1].op = "handler" /\ stack[g][1].e = e
        /\ stack[g][1].todo # <<>>
        /\ Head(stack[g][1].todo).op # "emit"

\* C15: in asynchronous mode every dispatched handler goroutine eventually runs;
\* and in both modes alike an EmitEvent that has returned has invoked exactly
\* the handlers registered for its event when it was issued, each once, and
\* leaves in the registry what was there without those once entries: so after
\* the same calls the registry and the invocation counts of an asynchronous and
\* a synchronous emitter are the same.
ClaimC15 ==
    /\ (async /\ pending # EmptyMap) ~> (pending = EmptyMap)
    /\ [](\A e \in EmitIds : emits[e].done =>
            \A h \in Handles : Count(e, h) = IF h \in emits[e].exp THEN 1 ELSE 0)
    /\ [][\A e \in EmitIds :
            (Len(emits') = Len(emits) /\ ~emits[e].done /\ emits'[e].done) =>
                Registered' = emits[e].pre \ {h \in emits[e].exp : hinfo[h].once}]_vars

\* Two asynchronous EmitEvent calls and a removal have been made, handlers were
\* dispatched, a once entry among them, and all their goroutines have run.
WitnessC15 ==
    \E e \in EmitIds : \E h \in Handles :
        /\ async
        /\ calls.emit = 2 /\ calls.rem = 1
        /\ emits[e].done
        /\ Count(e, h) = 1
        /\ \E g \in Handles : FiredCount(g) = 1
        /\ pending = EmptyMap

\* C16: the handlers an EmitEvent call invokes are fixed when the emission
\* starts: a listener or capturer registered after the call was issued (by one
\* of its handlers or by another thread) is not invoked by that emission.
ClaimC16 ==
    \A e \in EmitIds : \A h \in Handles :
        Count(e, h) > 0 => h <= emits[e].nh

\* The step in which the clear op does its work and returns.
Clears(op) == lastRemoval' # lastRemoval /\ lastRemoval'.op = op

\* The listeners registered on ev, once or not.
ListenersOn(ev) == Range(Get(listeners, ev)) \cup Range(Get(listenersOnce, ev))

\* C17: when RemoveAllListenersForEvent(E) returns no listener is registered
\* on E, whether added with AddListener or with ListenOnce; the listener lists
\* of every other event and the capturer list are as they were.
ClaimC17 ==
    [][Clears("RemoveAllListenersForEvent") =>
          /\ \A ev \in Events :
                IF ev = lastRemoval'.ev
                THEN ListenersOn(ev)' = {}
                ELSE /\ Get(listeners', ev) = Get(listeners, ev)
                     /\ Get(listenersOnce', ev) = Get(listenersOnce, ev)
          /\ capturers' = capturers]_vars

\* C18: when RemoveAllListeners returns no listener, once or not, is registered
\* on any event and the capturer list is as it was; the EmitEvent called next
\* invokes every capturer once and no listener.
ClaimC18 ==
    /\ [][Clears("RemoveAllListeners") =>
            /\ \A ev \in Events : ListenersOn(ev)' = {}
            /\ capturers' = capturers]_vars
    /\ [](\A e \in EmitIds :
            (emits[e].after = "RemoveAllListeners" /\ emits[e].done) =>
                \A h \in Handles :
                    Count(e, h) = IF IsCapturer(h) /\ h \in emits[e].pre THEN 1 ELSE 0)

\* Listeners and a capturer were registered, RemoveAllListeners was called, and
\* the EmitEvent called next has invoked the capturer and returned.
WitnessC18 ==
    \E e \in EmitIds : \E h, g \in Handles :
        /\ emits[e].after = "RemoveAllListeners" /\ emits[e].done
        /\ IsCapturer(h) /\ Count(e, h) = 1
        /\ IsListener(g) /\ g <= emits[e].nh /\ hinfo[g].ev = emits[e].ev
        /\ g \notin removed /\ FiredCount(g) = 0

\* C19: when RemoveAllCapturers returns the capturer list is empty, once and
\* plain capturers alike, and every listener list is as it was; the EmitEvent
\* called next invokes the listeners of its event and no capturer, and no
\* emission invokes a capturer that was not registered when it was issued.
ClaimC19 ==
    /\ [][Clears("RemoveAllCapturers") =>
            /\ capturers' = <<>>
            /\ listeners' = listeners
            /\ listenersOnce' = listenersOnce]_vars
    /\ [](\A e \in EmitIds : \A h \in Handles :
            /\ (IsCapturer(h) /\ Count(e, h) > 0) => h \in emits[e].pre
            /\ (emits[e].after = "RemoveAllCapturers" /\ emits[e].done) =>
                  Count(e, h) = IF IsListener(h) /\ h \in emits[e].exp THEN 1 ELSE 0)

\* A listener and a once capturer were registered, RemoveAllCapturers was
\* called, and the EmitEvent called next has invoked the listener, not the
\* capturer, and returned.
WitnessC19 ==
    \E e \in EmitIds : \E h, g \in Handles :
        /\ emits[e].after = "RemoveAllCapturers" /\ emits[e].done
        /\ IsListener(h) /\ Count(e, h) = 1
        /\ IsCapturer(g) /\ hinfo[g].once /\ g <= emits[e].nh
        /\ g \notin removed /\ FiredCount(g) = 0

\* The slots of the registry that hold handle h: the list, its event and the
\* position in it.
Slots(h) ==
    UNION {{<<"listeners", ev, i>> :
              i \in {j \in 1..Len(listeners[ev]) : listeners[ev][j] = h}} :
           ev \in DOMAIN listeners}
    \cup UNION {{<<"listenersOnce", ev, i>> :
              i \in {j \in 1..Len(listenersOnce[ev]) : listenersOnce[ev][j] = h}} :
           ev \in DOMAIN listenersOnce}
    \cup {<<"capturers", "", i>> : i \in {j \in 1..Len(capturers) : capturers[j] = h}}

\* C20: every registered listener is in exactly one slot of the registry, a
\* position of a list of the event it was registered on, and every registered
\* capturer is in exactly one position of the capturer list.
ClaimC20 ==
    \A h \in Handles :
        /\ Cardinality(Slots(h)) <= 1
        /\ h \in Registered => Cardinality(Slots(h)) = 1
        /\ \A slot \in Slots(h) :
              IF IsCapturer(h)
              THEN slot[1] = "capturers"
              ELSE slot[1] \in {"listeners", "listenersOnce"} /\ slot[2] = hinfo[h].ev

\* Two plain listeners on one event (or two plain capturers) were registered,
\* the first was removed from the head of its list, the second is still held.
WitnessC20 ==
    \E h, g \in Handles :
        /\ h < g
        /\ hinfo[h].kind = hinfo[g].kind /\ hinfo[h].ev = hinfo[g].ev
        /\ ~hinfo[h].once /\ ~hinfo[g].once
        /\ removed = {h} /\ staleRemovals = 0 /\ calls.clr = 0
        /\ FiredCount(h) = 0
        /\ g \in Registered /\ h \notin Registered

\* C21: a handle that has left the registry (removed, fired once, cleared)
\* never comes back into it, and an emission issued when the handle was no
\* longer registered does not invoke it.
ClaimC21 ==
    /\ [][\A h \in Handles : h \notin Registered => h \notin Registered']_vars
    /\ [](\A e \in EmitIds : \A h \in Handles :
            (h <= emits[e].nh /\ h \notin emits[e].pre) => Count(e, h) = 0)

\* A handle was registered and has left the registry, a handle was registered
\* after that, and an emission for the event of both issued then has invoked
\* the second and returned.
WitnessC21 ==
    \E e \in EmitIds : \E h, g \in Handles :
        /\ emits[e].done
        /\ h < g /\ g <= emits[e].nh
        /\ h \notin emits[e].pre
        /\ hinfo[h].kind = hinfo[g].kind /\ hinfo[h].ev = hinfo[g].ev
        /\ IsCapturer(h) \/ hinfo[h].ev = emits[e].ev
        /\ Count(e, g) = 1 /\ Count(e, h) = 0

\* The EmitEvent frames on the stacks: the emissions in progress.
EmitFrames ==
    UNION {{stack[t][i] : i \in {j \in 1..Len(stack[t]) : stack[t][j].op = "emit"}} :
           t \in Threads}

\* The list an emission in frame f is ranging over, <<>> when it is in no loop.
Ranged(f) ==
    IF f.pc \in {"listeners", "listeners_once", "listeners_invoke"}
    THEN Get(listeners, f.ev)
    ELSE IF f.pc \in {"capturers", "capturers_once", "capturers_invoke"}
    THEN capturers
    ELSE <<>>

\* C22: with removals running beside an EmitEvent, the emission never indexes
\* past the end of the list it ranges over, the list it ranges over under the
\* read lock is the live list and no entry of it is a cleared slot, no handler
\* is invoked twice by one emission, and a handler registered when the
\* emission was issued and still registered when it has returned was invoked.
ClaimC22 ==
    /\ \A f \in EmitFrames :
          /\ (f.pc \in {"listeners", "capturers"} /\ f.idx < f.n) =>
                f.idx - f.removed + 1 \in 1..Len(Ranged(f))
          /\ f.pc \in {"listeners_once", "capturers_once"} =>
                f.idx - f.removed + 1 \in 1..Len(Ranged(f))
          /\ f.pc \in {"listeners_invoke", "capturers_invoke"} => f.snap = Ranged(f)
          /\ Range(f.snap) \cup Range(Ranged(f)) \subseteq Handles
    /\ \A e \in EmitIds : \A h \in Handles :
          /\ Count(e, h) <= 1
          /\ (emits[e].done /\ h \in emits[e].exp /\ h \in Registered) => Count(e, h) = 1

\* An emission has invoked a handler and has not returned yet, and a removal
\* called meanwhile has taken a handler of that emission out of the registry.
WitnessC22 ==
    \E e \in EmitIds : \E h \in Handles :
        /\ ~emits[e].done
        /\ emits[e].inv # <<>>
        /\ h \in emits[e].exp
        /\ h \in removed \ emits[e].gone
        /\ h \notin Registered

\* Thread t takes the step.
Moves(t) == t \in Threads /\ t \in DOMAIN stack' /\ stack'[t] # stack[t]

\* Thread t reads the registry for EmitEvent: the emptiness check of
\* listenersOnce on entry, of listeners[event], of capturers.
ReadsRegistry(t) ==
    /\ Moves(t)
    /\ \/ InEmit(t, "listeners_check")
       \/ InEmit(t, "capturers_check")
       \/ /\ Len(stack'[t]) = Len(stack[t]) + 1
          /\ stack'[t][Len(stack'[t])].op = "emit"

\* The step writes the registry.
WritesRegistry ==
    listeners' # listeners \/ listenersOnce' # listenersOnce \/ capturers' # capturers

\* C23: EmitEvent reads the registry, its emptiness checks included, only with
\* the guard taken, that is never while a writer is inside Lock..Unlock, and
\* the registry is written only when no other thread holds the guard.
ClaimC23 ==
    [][/\ \A t \in Threads : ReadsRegistry(t) => ~WriterBusy
       /\ WritesRegistry =>
             /\ ~ReadersPresent
             /\ \A t \in Threads : Holds(t, {"w"}) => Moves(t)]_vars

\* Handle h is a handler that panics when it is invoked.
Panics(h) == hinfo[h].script = "panic"

\* The handler invoked last by emission e, NoHandle before the first.
LastInvoked(e) ==
    IF emits[e].inv = <<>> THEN NoHandle ELSE emits[e].inv[Len(emits[e].inv)].h

\* A handler invoked by emission e is running on some stack.
Running(e) ==
    \E t \in Threads : \E i \in 1..Len(stack[t]) :
        stack[t][i].op = "handler" /\ stack[t][i].e = e

\* C24: in a synchronous emitter the panic of a handler is not caught: once
\* the handler has panicked the EmitEvent call is gone from the emitting
\* thread without having returned, and no handler that comes later in the
\* emission is invoked.
ClaimC24 ==
    ~async =>
        \A e \in EmitIds :
            /\ \A i \in 1..(Len(emits[e].inv) - 1) : ~Panics(emits[e].inv[i].h)
            /\ (LastInvoked(e) # NoHandle /\ Panics(LastInvoked(e))) =>
                  /\ ~emits[e].done
                  /\ Running(e) \/ Panicked(e)

\* A listener that panics was registered before another handler of the same
\* event; EmitEvent invoked the first, the panic has left the call, and the
\* second, still registered, was not invoked.
WitnessC24 ==
    \E e \in EmitIds : \E h, g \in Handles :
        /\ ~async
        /\ Panicked(e) /\ ~Running(e)
        /\ LastInvoked(e) = h /\ Panics(h)
        /\ h < g /\ g \in emits[e].exp /\ g \in Registered
        /\ ~hinfo[g].once
        /\ Count(e, g) = 0

\* C28: after the panic of a handler has left a synchronous EmitEvent the
\* guard is not left held: with no call in progress nobody holds it, so the
\* next AddListener, RemoveListener or EmitEvent can take it.
ClaimC28 ==
    (/\ ~async
     /\ \E e \in EmitIds : Panicked(e)
     /\ \A t \in Threads : stack[t] = <<>>)
        => ~ReadersPresent /\ ~WriterBusy /\ ~MutexHeld

\* The entries of list s that are not once-flagged, in their order.
Lasting(s) == SelectSeq(s, LAMBDA h : ~hinfo[h].once)

\* C25: when a synchronous EmitEvent(E) with nothing running beside it has
\* returned, the listener list of E is the list it had when the call was made
\* without its once entries, the others in their order; so is the capturer
\* list; every entry of those two lists was invoked exactly once and nothing
\* else was invoked; the lists of the other events are as they were.
ClaimC25 ==
    \A e \in EmitIds :
        (~async /\ emits[e].done) =>
            LET ev == emits[e].ev
                was == emits[e].reg
            IN /\ Get(listeners, ev) = Lasting(Get(was.l, ev))
               /\ Get(listenersOnce, ev) = Lasting(Get(was.o, ev))
               /\ capturers = Lasting(was.c)
               /\ \A h \in Handles :
                     Count(e, h) =
                        IF h \in Range(Get(was.l, ev)) \cup Range(Get(was.o, ev))
                                    \cup Range(was.c)
                        THEN 1 ELSE 0
               /\ \A other \in Events \ {ev} :
                     /\ Get(listeners, other) = Get(was.l, other)
                     /\ Get(listenersOnce, other) = Get(was.o, other)

\* Two adjacent once entries, the first and the last of their list, were both
\* invoked by a synchronous EmitEvent that has returned, and both are gone.
WitnessC25 ==
    \E e \in EmitIds :
        /\ ~async /\ emits[e].done
        /\ Len(hinfo) = 2
        /\ hinfo[1].once /\ hinfo[2].once
        /\ hinfo[1].kind = hinfo[2].kind /\ hinfo[1].ev = hinfo[2].ev
        /\ Count(e, 1) = 1 /\ Count(e, 2) = 1
        /\ Registered = {}

\* C26: RemoveListener(E, h) with h registered on E, and RemoveCapturer(h) with
\* h registered, delete exactly the entry h: its list is one shorter, the other
\* entries keep their order, and every other list is as it was.
ClaimC26 ==
    [][\A h \in Handles :
          (h \in Registered /\ h \notin removed /\ h \in removed') =>
              /\ Registered' = Registered \ {h}
              /\ capturers' = Without(capturers, h)
              /\ Len(capturers') = Len(capturers) - (IF IsCapturer(h) THEN 1 ELSE 0)
              /\ \A ev \in Events :
                    /\ Get(listeners', ev) = Without(Get(listeners, ev), h)
                    /\ Get(listenersOnce', ev) = Without(Get(listenersOnce, ev), h)
                    /\ Len(Get(listeners', ev)) + Len(Get(listenersOnce', ev)) =
                          Len(Get(listeners, ev)) + Len(Get(listenersOnce, ev))
                          - (IF IsListener(h) /\ hinfo[h].ev = ev THEN 1 ELSE 0)]_vars

\* Three entries were registered in one list and the middle one was removed
\* by RemoveListener or RemoveCapturer; the list holds the first and the last.
WitnessC26 ==
    /\ Len(hinfo) = 3
    /\ hinfo[1].kind = hinfo[2].kind /\ hinfo[2].kind = hinfo[3].kind
    /\ hinfo[1].ev = hinfo[2].ev /\ hinfo[2].ev = hinfo[3].ev
    /\ hinfo[1].once = hinfo[2].once /\ hinfo[2].once = hinfo[3].once
    /\ removed = {2} /\ staleRemovals = 0 /\ calls.rem = 1 /\ calls.clr = 0
    /\ Registered = {1, 3}
    /\ \/ capturers = <<1, 3>>
       \/ Get(listeners, hinfo[1].ev) = <<1, 3>>
       \/ Get(listenersOnce, hinfo[1].ev) = <<1, 3>>

\* Goroutine t is inside the Lock of a registration.
Registering(t) ==
    /\ t \in Threads
    /\ stack[t] # <<>>
    /\ Top(t).lk = "wwait"
    /\ Top(t).op \in {"AddListener", "ListenOnce", "AddCapturer", "CaptureOnce"}

\* C27: with registrations made from two goroutines at once and beside an
\* emission, every handle a registration has returned is in exactly one slot
\* of the registry unless an emission has taken it out as a once entry; and a
\* registration waiting in Lock gets the guard and returns, the sync.Mutex an
\* EmitEvent holds being released in the end.
ClaimC27 ==
    /\ [](\A h \in Handles :
            (~hinfo[h].once \/ (FiredCount(h) = 0 /\ ~Claimed(h))) =>
                Cardinality(Slots(h)) = 1)
    /\ \A t \in Callers : Registering(t) ~> (stack[t] = <<>>)
    /\ MutexHeld ~> ~MutexHeld

\* A handler was registered, an EmitEvent was called, the second handler was
\* registered before that EmitEvent had returned; all calls have returned
\* and both handlers are in the registry.
WitnessC27 ==
    \E e \in EmitIds :
        /\ emits[e].done /\ emits[e].nh = 1
        /\ Len(hinfo) = 2
        /\ \A t \in Threads : stack[t] = <<>>
        /\ Registered = {1, 2}
        /\ \A h \in Handles : Cardinality(Slots(h)) = 1

====
